---- MODULE Spec2Model ----
(***************************************************************************)
(* A model of the CKAN adapter (odp_api_adapters/ckan_adapter.py).         *)
(*                                                                         *)
(* The adapter is stateless: every public operation is a short sequence of *)
(* blocking calls to the CKAN backend.  The backend is the environment: it *)
(* answers each call either with a result or by raising one of the         *)
(* exception classes the adapter catches.  One step of the model is one    *)
(* blocking backend call together with the code that runs on its reply up  *)
(* to the next call (or up to the return / raise of the operation).        *)
(*                                                                         *)
(* Strings that the code formats or inspects (error details, keys) are     *)
(* sequences of tokens, so that concatenation, endswith and the substring  *)
(* test are computed and not assumed.                                      *)
(*                                                                         *)
(* Spec lets the backend answer anything.  StoreSpec gives the backend a   *)
(* memory of the records it was sent (their owner and lifecycle state) and *)
(* lets a concurrent caller delete a record between two calls.             *)
(***************************************************************************)
EXTENDS Integers, Sequences, FiniteSets, TLC

VARIABLES
    op,               \* the public operation in progress ("none" when idle)
    pc,               \* position of the operation: the next backend call site
    institution_key,  \* argument: the caller's institution key
    record_id,        \* argument (or, in a create, ckan_record['id'])
    metadata_record,  \* argument: the MetadataRecordIn
    state_arg,        \* argument: the target workflow state
    pagination,       \* argument: the page asked of list_metadata_records
    entity,           \* argument: the caller's Project / CollectionIn object
    entity_in,        \* history: that object as the caller passed it
    access_token,     \* argument: the bearer token
    input_dict,       \* local: the translated project dict
    ckan_record,      \* local: the create / update response dict
    primary,          \* history: the create / update response as received
    akey,             \* local: index of the annotation being set
    calls,            \* history: the backend calls issued by the operation
    last,             \* history: the backend's reply to the latest call
    log,              \* the log entries written by the operation
    result,           \* what the operation returned or raised
    backend           \* the remote backend's records, when it is modelled

vars == <<op, pc, institution_key, record_id, metadata_record, state_arg, pagination,
          entity, entity_in, access_token, input_dict, ckan_record, primary, akey,
          calls, last, log, result, backend>>

-----------------------------------------------------------------------------
(* Bounds of the model *)

\* the longest list of validation-result fragments the backend returns
MaxFragments == 2

\* at most this many entries in the answer to a list action
MaxListed == 1

-----------------------------------------------------------------------------
(* Program constants *)

HTTP_400_BAD_REQUEST == 400
HTTP_403_FORBIDDEN == 403
HTTP_404_NOT_FOUND == 404
HTTP_503_SERVICE_UNAVAILABLE == 503

\* imported from odp.api.models; opaque suffix tokens
COLLECTION_SUFFIX == <<"COLLECTION_SUFFIX">>
PROJECT_SUFFIX == <<"PROJECT_SUFFIX">>

\* the text create_or_update_project looks for in the error detail
DuplicateNameText == "Group name already exists in database"

\* the annotation keys with the last two exchanged
AnnotationKeys_Reordered ==
    <<"terms_and_conditions", "capture_info", "data_agreement">>

\* the fixed annotation keys, in the order _annotate_metadata_record sets them
AnnotationKeys == <<"terms_and_conditions", "data_agreement", "capture_info">>

\* absent value (Python None) of a record-valued slot
None == [none |-> TRUE]

-----------------------------------------------------------------------------
(* Inputs and backend answers, drawn from small sets *)

Institutions == {"instA", "instB"}
RecordIds == {"r1", "r2"}
Tokens == {"token"}
WorkflowStates == {"published"}

\* an empty dict
EmptyDict == <<>>

MetadataRecordIns ==
    { [collection_key |-> "coll", schema_key |-> "schema",
       metadata |-> [title |-> "t"], doi |-> "",
       auto_assign_doi |-> TRUE,
       terms_conditions_accepted |-> TRUE,
       data_agreement_accepted |-> TRUE,
       data_agreement_url |-> "http://agreement",
       capture_method |-> "wizard"],
      [collection_key |-> "coll2", schema_key |-> "schema2",
       metadata |-> [title |-> "t2"], doi |-> "10.5/x",
       auto_assign_doi |-> FALSE,
       terms_conditions_accepted |-> FALSE,
       data_agreement_accepted |-> FALSE,
       data_agreement_url |-> "",
       capture_method |-> "harvester"] }

\* metadata record dicts the backend may answer with (deserialize_json=True:
\* metadata_json arrives structured).  The backend defaults name to id.
CkanRecords ==
    { [id |-> i, name |-> IF i = "r1" THEN i ELSE "pid-2",
       owner_org |-> o, state |-> s,
       metadata_collection_id |-> "coll", metadata_standard_id |-> "schema",
       metadata_json |-> [title |-> "t"], doi |-> "",
       validated |-> v,
       errors |-> IF v THEN [f1 |-> "stale"] ELSE EmptyDict,
       workflow_state_id |-> "draft"]
      : i \in RecordIds, o \in Institutions, s \in {"active", "deleted"},
        v \in BOOLEAN }

\* the error mapping of one validation-result fragment
FragmentErrors ==
    { EmptyDict, [f1 |-> "m1"], [f1 |-> "m2"], [f2 |-> "m1"] }

Fragments == { [errors |-> e] : e \in FragmentErrors }

SeqsUpTo(S, n) == UNION { [1..k -> S] : k \in 0..n }

ValidationActivities ==
    { [data |-> [results |-> rs]] : rs \in SeqsUpTo(Fragments, MaxFragments) }

WorkflowActivities ==
    { [data |-> [errors |-> e]] : e \in {EmptyDict, [state |-> "not allowed"]} }

\* exception classes a backend call may raise
ExceptionClasses ==
    {"RequestException", "ValidationError", "NotAuthorized", "NotFound",
     "CKANAPIError"}

\* ckanapi: ValidationError, NotAuthorized and NotFound derive from CKANAPIError
IsInstance(exc, cls) ==
    \/ exc = cls
    \/ /\ cls = "CKANAPIError"
       /\ exc \in {"ValidationError", "NotAuthorized", "NotFound"}

GenericMsg == <<"backend message">>
DupNameMsg == <<"name: ", DuplicateNameText>>

\* the caller's Project objects; a key may already carry the suffix
Projects ==
    { [key |-> k, name |-> n, description |-> "about"]
      : k \in {<<"proj">>, <<"proj">> \o PROJECT_SUFFIX, <<"proj">> \o COLLECTION_SUFFIX},
        n \in {"Project One", "Project Two"} }

CkanProjects ==
    { [name |-> k, title |-> "Stored Title", description |-> "stored"]
      : k \in {<<"proj">> \o PROJECT_SUFFIX, <<"other">> \o PROJECT_SUFFIX} }

\* the caller's CollectionIn objects
CollectionIns ==
    { [key |-> k, name |-> "Collection", description |-> "about",
       doi_scope |-> "10.5", project_keys |-> pk]
      : k \in {<<"coll">>, <<"coll">> \o COLLECTION_SUFFIX, <<"coll">> \o PROJECT_SUFFIX},
        pk \in {<<>>, <<"p1", "p2">>} }

CkanCollections ==
    { [organization_id |-> o, name |-> <<"coll">> \o COLLECTION_SUFFIX,
       title |-> "Stored", description |-> "stored", doi_collection |-> "10.5",
       infrastructures |-> inf]
      : o \in Institutions,
        inf \in {<<>>, <<[id |-> "p2"], [id |-> "p1"]>>} }

Paginations == { [offset |-> 0, limit |-> 10], [offset |-> 10, limit |-> 5] }

\* what an action returns when it succeeds
OkResults(action) ==
    CASE action \in {"metadata_record_show", "metadata_record_create",
                     "metadata_record_update"} -> CkanRecords
      [] action = "metadata_record_validate" -> ValidationActivities
      [] action = "metadata_record_workflow_state_transition" -> WorkflowActivities
      [] action \in {"infrastructure_create", "infrastructure_update"} -> CkanProjects
      [] action = "metadata_collection_create" -> CkanCollections
      [] action = "metadata_record_list" -> SeqsUpTo(CkanRecords, MaxListed)
      [] action = "metadata_collection_list" -> SeqsUpTo(CkanCollections, MaxListed)
      [] action = "infrastructure_list" -> SeqsUpTo(CkanProjects, MaxListed)
      [] OTHER -> {None}

\* the messages of the exceptions an action raises
Messages(action) ==
    IF action = "infrastructure_create" THEN {GenericMsg, DupNameMsg}
    ELSE {GenericMsg}

\* every answer the backend can give to a call of the action
Replies(action) ==
    { [ok |-> TRUE, result |-> r] : r \in OkResults(action) }
    \cup
    { [ok |-> FALSE, exc |-> c, msg |-> m]
      : c \in ExceptionClasses, m \in Messages(action) }

-----------------------------------------------------------------------------
(* Pure functions of the adapter *)

HTTPException(status_code, detail) ==
    [status_code |-> status_code, detail |-> detail]

Raise(e) == [raised |-> TRUE, exc |-> e]
Return(v) == [raised |-> FALSE, value |-> v]

\* a call as it leaves the adapter: action name, Authorization header, data_dict
Call(action, token, data_dict) ==
    [action |-> action, apikey |-> <<"Bearer ", token>>, data_dict |-> data_dict]

\* a _call_ckan whose except clause for the base class comes first
CallCkan_BaseClassFirst(reply) ==
    IF reply.ok THEN Return(reply.result)
    ELSE IF IsInstance(reply.exc, "RequestException")
         THEN Raise(HTTPException(HTTP_503_SERVICE_UNAVAILABLE,
                        <<"Error sending request to CKAN: ">> \o reply.msg))
    ELSE IF IsInstance(reply.exc, "CKANAPIError")
         THEN Raise(HTTPException(HTTP_400_BAD_REQUEST,
                        <<"CKAN error: ">> \o reply.msg))
    ELSE IF IsInstance(reply.exc, "NotAuthorized")
         THEN Raise(HTTPException(HTTP_403_FORBIDDEN,
                        <<"Not authorized to access CKAN resource: ">> \o reply.msg))
    ELSE Raise(HTTPException(HTTP_404_NOT_FOUND,
                        <<"CKAN resource not found: ">> \o reply.msg))

\* _call_ckan: the result unchanged, or the first matching except clause
CallCkan(reply) ==
    IF reply.ok THEN Return(reply.result)
    ELSE IF IsInstance(reply.exc, "RequestException")
         THEN Raise(HTTPException(HTTP_503_SERVICE_UNAVAILABLE,
                        <<"Error sending request to CKAN: ">> \o reply.msg))
    ELSE IF IsInstance(reply.exc, "ValidationError")
         THEN Raise(HTTPException(HTTP_400_BAD_REQUEST,
                        <<"CKAN validation error: ">> \o reply.msg))
    ELSE IF IsInstance(reply.exc, "NotAuthorized")
         THEN Raise(HTTPException(HTTP_403_FORBIDDEN,
                        <<"Not authorized to access CKAN resource: ">> \o reply.msg))
    ELSE IF IsInstance(reply.exc, "NotFound")
         THEN Raise(HTTPException(HTTP_404_NOT_FOUND,
                        <<"CKAN resource not found: ">> \o reply.msg))
    ELSE Raise(HTTPException(HTTP_400_BAD_REQUEST,
                        <<"CKAN error: ">> \o reply.msg))

\* json.dumps: the serialized form of a value
JsonDumps(v) == [json |-> v]

\* a translation that takes the institution from the wrong field
TranslateFromCkanRecord_CollectionAsInstitution(r) ==
    [institution_key |-> r.metadata_collection_id,
     collection_key |-> r.metadata_collection_id,
     schema_key |-> r.metadata_standard_id,
     metadata |-> r.metadata_json,
     id |-> r.id,
     pid |-> IF r.name /= r.id THEN r.name ELSE "None",
     doi |-> r.doi,
     validated |-> r.validated,
     errors |-> r.errors,
     state |-> r.workflow_state_id]

TranslateFromCkanRecord(r) ==
    [institution_key |-> r.owner_org,
     collection_key |-> r.metadata_collection_id,
     schema_key |-> r.metadata_standard_id,
     metadata |-> r.metadata_json,
     id |-> r.id,
     pid |-> IF r.name /= r.id THEN r.name ELSE "None",
     doi |-> r.doi,
     validated |-> r.validated,
     errors |-> r.errors,
     state |-> r.workflow_state_id]

TranslateToCkanRecord(inst, mr) ==
    [owner_org |-> inst,
     metadata_collection_id |-> mr.collection_key,
     metadata_standard_id |-> mr.schema_key,
     metadata_json |-> JsonDumps(mr.metadata),
     doi |-> mr.doi,
     auto_assign_doi |-> mr.auto_assign_doi]

\* a scope test that forgets the lifecycle state
ScopeViolated_OwnerOnly(r, inst) ==
    r.owner_org /= inst

\* the ownership / lifecycle test of get_metadata_record
ScopeViolated(r, inst) ==
    r.state /= "active" \/ r.owner_org /= inst

\* get_metadata_record, given the backend's answer to the show call
GetMetadataRecord(inst, reply) ==
    LET shown == CallCkan(reply)
    IN  IF shown.raised THEN shown
        ELSE IF ScopeViolated(shown.value, inst)
             THEN Raise(HTTPException(HTTP_404_NOT_FOUND, <<"CKAN resource not found">>))
        ELSE Return(TranslateFromCkanRecord(shown.value))

\* a dict merge in which a key that is already there keeps its value
DictUpdate_KeepFirst(d, e) ==
    [k \in (DOMAIN d) \cup (DOMAIN e) |-> IF k \in DOMAIN d THEN d[k] ELSE e[k]]

\* dict.update
DictUpdate(d, e) ==
    [k \in (DOMAIN d) \cup (DOMAIN e) |-> IF k \in DOMAIN e THEN e[k] ELSE d[k]]

\* the loop of validate_metadata_record over the result fragments
RECURSIVE MergeErrors(_, _)
MergeErrors(validation_errors, validation_results) ==
    IF validation_results = <<>> THEN validation_errors
    ELSE MergeErrors(DictUpdate(validation_errors, Head(validation_results).errors),
                     Tail(validation_results))

MetadataValidationResult(activity) ==
    LET validation_errors == MergeErrors(EmptyDict, activity.data.results)
    IN  [success |-> (DOMAIN validation_errors = {}), errors |-> validation_errors]

MetadataWorkflowResult(activity) ==
    LET workflow_errors == activity.data.errors
    IN  [success |-> (DOMAIN workflow_errors = {}), errors |-> workflow_errors]

\* the value _annotate_metadata_record stores under each key
AnnotationValue(key, mr) ==
    CASE key = "terms_and_conditions" ->
            [accepted |-> mr.terms_conditions_accepted]
      [] key = "data_agreement" ->
            [accepted |-> mr.data_agreement_accepted, href |-> mr.data_agreement_url]
      [] key = "capture_info" ->
            [capture_method |-> mr.capture_method]

AnnotationParams(rid, key, mr) ==
    [id |-> rid, key |-> key, value |-> JsonDumps(AnnotationValue(key, mr))]

\* a fallback that also takes a NotFound for a duplicate
AnnotateFallsBack_NotFoundToo(e) == e.status_code \in {400, 404}

\* annotate(): does a failed annotation create fall back to an update?
AnnotateFallsBack(e) == e.status_code = 400

EndsWith(s, suffix) ==
    /\ Len(s) >= Len(suffix)
    /\ SubSeq(s, Len(s) - Len(suffix) + 1, Len(s)) = suffix

NormalizeCollectionKey(key) ==
    IF ~EndsWith(key, COLLECTION_SUFFIX) THEN key \o COLLECTION_SUFFIX ELSE key

\* a normalization that appends the suffix whatever the key ends with
NormalizeProjectKey_Appending(key) ==
    key \o PROJECT_SUFFIX

NormalizeProjectKey(key) ==
    IF ~EndsWith(key, PROJECT_SUFFIX) THEN key \o PROJECT_SUFFIX ELSE key

\* a normalization that resets the description of the caller's object as well
SuffixedCollection_Resetting(collection) ==
    [collection EXCEPT !.key = NormalizeCollectionKey(collection.key),
                       !.description = ""]

\* create_collection: the key of the caller's object is suffixed in place
SuffixedCollection(collection) ==
    [collection EXCEPT !.key = NormalizeCollectionKey(collection.key)]

\* create_or_update_project: the key of the caller's object is suffixed in place
SuffixedProject(project) ==
    [project EXCEPT !.key = NormalizeProjectKey(project.key)]

\* the substring test `text in detail`
Contains(detail, text) == \E i \in 1..Len(detail) : detail[i] = text

\* a fallback on any BadRequest, whatever its message
ProjectFallsBack_AnyBadRequest(e) ==
    e.status_code = HTTP_400_BAD_REQUEST

\* a fallback that expects the duplicate as a Conflict
ProjectFallsBack_Conflict(e) ==
    e.status_code = 409 /\ Contains(e.detail, DuplicateNameText)

\* create_or_update_project: does a failed create fall back to an update?
ProjectFallsBack(e) ==
    e.status_code = HTTP_400_BAD_REQUEST /\ Contains(e.detail, DuplicateNameText)

TranslateFromCkanProject(p) ==
    [key |-> p.name, name |-> p.title, description |-> p.description]

TranslateToCkanProject(project) ==
    [name |-> project.key, title |-> project.name, description |-> project.description]

TranslateFromCkanCollection(c) ==
    [institution_key |-> c.organization_id,
     key |-> c.name,
     name |-> c.title,
     description |-> c.description,
     doi_scope |-> c.doi_collection,
     project_keys |-> [i \in 1..Len(c.infrastructures) |-> c.infrastructures[i].id]]

TranslateToCkanCollection(inst, collection) ==
    [name |-> collection.key,
     title |-> collection.name,
     description |-> collection.description,
     organization_id |-> inst,
     doi_collection |-> collection.doi_scope,
     infrastructures |-> [i \in 1..Len(collection.project_keys) |->
                            [id |-> collection.project_keys[i]]]]

-----------------------------------------------------------------------------
(* The state machine *)

\* The backend is another system.  Under Spec it answers every call with any
\* result or error.  Under StoreSpec it keeps, for each record id, the owner
\* and the lifecycle state, answers show, create, update and delete from what
\* it keeps, and may still fail any call.
AbsentRecord == [present |-> FALSE, owner_org |-> "", state |-> ""]
StoredRecord(owner, state) == [present |-> TRUE, owner_org |-> owner, state |-> state]

AnyBackend ==
    [modelled |-> FALSE, records |-> [rid \in RecordIds |-> AbsentRecord],
     created |-> None]
EmptyBackend ==
    [modelled |-> TRUE, records |-> [rid \in RecordIds |-> AbsentRecord],
     created |-> None]

\* may the backend give this answer to this call?
Answers(action, data_dict, reply) ==
    IF ~backend.modelled \/ ~reply.ok THEN TRUE
    ELSE IF action = "metadata_record_show"
    THEN /\ backend.records[data_dict.id].present
         /\ reply.result.id = data_dict.id
         /\ reply.result.owner_org = backend.records[data_dict.id].owner_org
         /\ reply.result.state = backend.records[data_dict.id].state
    ELSE IF action = "metadata_record_create"
    THEN /\ reply.result.owner_org = data_dict.input.owner_org
         /\ reply.result.state = "active"
         /\ backend.records[reply.result.id].present =>
                backend.records[reply.result.id].owner_org = data_dict.input.owner_org
    ELSE IF action = "metadata_record_update"
    THEN /\ backend.records[data_dict.id].present
         /\ backend.records[data_dict.id].state = "active"
         /\ reply.result.id = data_dict.id
         /\ reply.result.owner_org = data_dict.input.owner_org
         /\ reply.result.state = "active"
    ELSE IF action = "metadata_record_delete"
    THEN /\ backend.records[data_dict.id].present
         /\ backend.records[data_dict.id].state = "active"
    ELSE TRUE

\* the backend after a soft delete of the record
Deleted(rid) ==
    [backend EXCEPT
         !.records[rid].state = "deleted",
         !.created = IF backend.created /= None /\ backend.created.id = rid
                     THEN None ELSE backend.created]

\* the backend after it has answered the call; `created` remembers the record
\* of the latest successful create until the record is written again
Effect(action, data_dict, reply) ==
    IF ~backend.modelled \/ ~reply.ok THEN backend
    ELSE IF action = "metadata_record_create"
    THEN [backend EXCEPT
              !.records[reply.result.id] = StoredRecord(reply.result.owner_org, "active"),
              !.created = [id |-> reply.result.id,
                           institution_key |-> data_dict.input.owner_org]]
    ELSE IF action = "metadata_record_update"
    THEN [backend EXCEPT
              !.records[data_dict.id] = StoredRecord(reply.result.owner_org, "active"),
              !.created = IF backend.created /= None /\ backend.created.id = data_dict.id
                          THEN None ELSE backend.created]
    ELSE IF action = "metadata_record_delete"
    THEN Deleted(data_dict.id)
    ELSE backend

Pending == [kind |-> "pending"]
Returned(v) == [kind |-> "returned", value |-> v]
Raised(e) == [kind |-> "raised", exc |-> e]

\* a log entry keeps the level and what the message names (the annotation key,
\* the record id); the error text that follows them is not kept
ErrorLog(key, rid) == [level |-> "error", key |-> key, record_id |-> rid]
WarningLog(rid) == [level |-> "warning", record_id |-> rid]

args == <<institution_key, metadata_record, state_arg, pagination, entity_in, access_token>>

\* no operation in progress: the adapter holds no state of its own
NoOperation ==
    /\ op = "none"
    /\ pc = "idle"
    /\ institution_key = ""
    /\ record_id = ""
    /\ metadata_record = None
    /\ state_arg = ""
    /\ pagination = None
    /\ entity = None
    /\ entity_in = None
    /\ access_token = ""
    /\ input_dict = None
    /\ ckan_record = None
    /\ primary = None
    /\ akey = 0
    /\ calls = <<>>
    /\ last = None
    /\ log = <<>>
    /\ result = [kind |-> "none"]

\* the backend answers whatever it likes
Init ==
    /\ NoOperation
    /\ backend = AnyBackend

\* the backend keeps records, and has none yet
StoreInit ==
    /\ NoOperation
    /\ backend = EmptyBackend

\* a caller enters a public operation: the adapter keeps nothing between calls
Enter(o, p, inst, rid, mr, st, ent_in, ent, tok, dict) ==
    /\ op' = o
    /\ pc' = p
    /\ institution_key' = inst
    /\ record_id' = rid
    /\ metadata_record' = mr
    /\ state_arg' = st
    /\ entity' = ent
    /\ entity_in' = ent_in
    /\ access_token' = tok
    /\ input_dict' = dict
    /\ ckan_record' = None
    /\ primary' = None
    /\ akey' = 0
    /\ calls' = <<>>
    /\ last' = None
    /\ log' = <<>>
    /\ result' = Pending
    /\ UNCHANGED backend

\* one blocking backend call and its answer
Exchange(action, data_dict, reply) ==
    /\ calls' = Append(calls, Call(action, access_token, data_dict))
    /\ last' = reply
    /\ Answers(action, data_dict, reply)
    /\ backend' = Effect(action, data_dict, reply)

\* the operation returns or raises
Finish(r) ==
    /\ pc' = "done"
    /\ result' = r

\* the translation a list operation applies to an entry of the answer
TranslateListed(action, entry) ==
    CASE action = "metadata_record_list" -> TranslateFromCkanRecord(entry)
      [] action = "metadata_collection_list" -> TranslateFromCkanCollection(entry)
      [] action = "infrastructure_list" -> TranslateFromCkanProject(entry)

\* a list operation: one call, and every entry of the answer translated
ListOperation(action, data_dict) ==
    /\ \E reply \in Replies(action) :
        LET listed == CallCkan(reply)
        IN  /\ Exchange(action, data_dict, reply)
            /\ Finish(IF listed.raised THEN Raised(listed.exc)
                      ELSE Returned([i \in 1..Len(listed.value) |->
                                        TranslateListed(action, listed.value[i])]))
    /\ UNCHANGED <<op, args, record_id, entity, input_dict, ckan_record, primary,
                   akey, log>>

InvokeListMetadataRecords ==
    /\ pc = "idle"
    /\ \E inst \in Institutions, page \in Paginations, tok \in Tokens :
           /\ Enter("list_metadata_records", "list", inst, "", None, "", None, None,
                    tok, None)
           /\ pagination' = page

MetadataRecordList ==
    /\ op = "list_metadata_records" /\ pc = "list"
    /\ ListOperation("metadata_record_list",
                     [owner_org |-> institution_key, offset |-> pagination.offset,
                      limit |-> pagination.limit, all_fields |-> TRUE,
                      deserialize_json |-> TRUE])

InvokeListCollections ==
    /\ pc = "idle"
    /\ \E inst \in Institutions, tok \in Tokens :
           /\ Enter("list_collections", "list", inst, "", None, "", None, None, tok, None)
           /\ pagination' = None

MetadataCollectionList ==
    /\ op = "list_collections" /\ pc = "list"
    /\ ListOperation("metadata_collection_list",
                     [owner_org |-> institution_key, all_fields |-> TRUE])

InvokeListProjects ==
    /\ pc = "idle"
    /\ \E tok \in Tokens :
           /\ Enter("list_projects", "list", "", "", None, "", None, None, tok, None)
           /\ pagination' = None

InfrastructureList ==
    /\ op = "list_projects" /\ pc = "list"
    /\ ListOperation("infrastructure_list", [all_fields |-> TRUE])

InvokeGetMetadataRecord ==
    /\ pc = "idle"
    /\ pagination' = None
    /\ \E inst \in Institutions, rid \in RecordIds, tok \in Tokens :
           Enter("get_metadata_record", "show", inst, rid, None, "", None, None, tok, None)

InvokeCreateOrUpdateMetadataRecord ==
    /\ pc = "idle"
    /\ pagination' = None
    /\ \E inst \in Institutions, mr \in MetadataRecordIns, tok \in Tokens :
           Enter("create_or_update_metadata_record", "mutate", inst, "", mr, "", None,
                 None, tok, TranslateToCkanRecord(inst, mr))

InvokeUpdateMetadataRecord ==
    /\ pc = "idle"
    /\ pagination' = None
    /\ \E inst \in Institutions, rid \in RecordIds, mr \in MetadataRecordIns,
          tok \in Tokens :
           Enter("update_metadata_record", "check", inst, rid, mr, "", None, None, tok, None)

InvokeDeleteMetadataRecord ==
    /\ pc = "idle"
    /\ pagination' = None
    /\ \E inst \in Institutions, rid \in RecordIds, tok \in Tokens :
           Enter("delete_metadata_record", "check", inst, rid, None, "", None, None, tok, None)

InvokeValidateMetadataRecord ==
    /\ pc = "idle"
    /\ pagination' = None
    /\ \E inst \in Institutions, rid \in RecordIds, tok \in Tokens :
           Enter("validate_metadata_record", "check", inst, rid, None, "", None, None, tok, None)

InvokeChangeStateOfMetadataRecord ==
    /\ pc = "idle"
    /\ pagination' = None
    /\ \E inst \in Institutions, rid \in RecordIds, st \in WorkflowStates,
          tok \in Tokens :
           Enter("change_state_of_metadata_record", "check", inst, rid, None, st, None,
                 None, tok, None)

\* create_collection up to its backend call: the key of the caller's object is
\* suffixed in place, then the object is translated
InvokeCreateCollection ==
    /\ pc = "idle"
    /\ pagination' = None
    /\ \E inst \in Institutions, collection \in CollectionIns, tok \in Tokens :
           LET normalized == SuffixedCollection(collection)
           IN  Enter("create_collection", "mutate", inst, "", None, "", collection,
                     normalized, tok, TranslateToCkanCollection(inst, normalized))

\* create_or_update_project up to its first backend call
InvokeCreateOrUpdateProject ==
    /\ pc = "idle"
    /\ pagination' = None
    /\ \E project \in Projects, tok \in Tokens :
           LET normalized == SuffixedProject(project)
           IN  Enter("create_or_update_project", "mutate", "", "", None, "", project,
                     normalized, tok, TranslateToCkanProject(normalized))

\* a create / update that validates whatever the backend's record says
AfterAnnotations_Always ==
    /\ pc' = "vcheck"
    /\ UNCHANGED result

\* create / update of a record, after the annotations: validate for convenience
\* when the backend's record is not validated, else translate and return
AfterAnnotations ==
    IF ~ckan_record.validated
    THEN /\ pc' = "vcheck"
         /\ UNCHANGED result
    ELSE Finish(Returned(TranslateFromCkanRecord(ckan_record)))

\* an annotate() after which the same key is set again
NextAnnotation_Again(i) ==
    /\ akey' = i
    /\ pc' = "annotate_create"
    /\ UNCHANGED result

\* annotate() is over for the key at index i
NextAnnotation(i) ==
    IF i < Len(AnnotationKeys)
    THEN /\ akey' = i + 1
         /\ pc' = "annotate_create"
         /\ UNCHANGED result
    ELSE /\ akey' = i
         /\ AfterAnnotations

\* an annotate() that raises the error that remained
AnnotateEnd_Raising(i, err) ==
    IF err /= <<>>
    THEN /\ Finish(Raised(HTTPException(HTTP_400_BAD_REQUEST, err)))
         /\ UNCHANGED <<akey, log>>
    ELSE /\ NextAnnotation(i)
         /\ UNCHANGED log

\* an annotate() that drops the error that remained without a word
AnnotateEnd_Silent(i, err) ==
    /\ UNCHANGED log
    /\ NextAnnotation(i)

\* the end of annotate() for the key at index i: err is the detail of the
\* error that remained (empty when there is none); it is logged, never raised
AnnotateEnd(i, err) ==
    /\ log' = IF err /= <<>>
              THEN Append(log, ErrorLog(AnnotationKeys[i], record_id))
              ELSE log
    /\ NextAnnotation(i)

\* a create / update that lets the validation error out
SwallowValidationError_Raising(e) ==
    /\ Finish(Raised(e))
    /\ UNCHANGED <<log, ckan_record>>

\* the except clause around the call to validate_metadata_record
SwallowValidationError(e) ==
    /\ log' = Append(log, WarningLog(record_id))
    /\ Finish(Returned(TranslateFromCkanRecord(ckan_record)))
    /\ UNCHANGED ckan_record

\* an existence check whose outcome is ignored
AfterCheck_Ignored(got) ==
    /\ pc' = "mutate"
    /\ UNCHANGED result

\* the existence check that opens update, delete, validate and change_state:
\* an error of get_metadata_record leaves the operation, else the operation
\* goes on to its own backend call
AfterCheck(got) ==
    IF got.raised THEN Finish(Raised(got.exc))
    ELSE /\ pc' = "mutate"
         /\ UNCHANGED result

\* get_metadata_record: the show call and the scope test.  It is the whole
\* public operation ("show"), the existence check that opens update, delete,
\* validate and change_state ("check"), or the check inside the validation
\* that a record create / update attempts ("vcheck").
MetadataRecordShow ==
    /\ pc \in {"show", "check", "vcheck"}
    /\ \E reply \in Replies("metadata_record_show") :
        LET got == GetMetadataRecord(institution_key, reply)
        IN  /\ Exchange("metadata_record_show",
                        [id |-> record_id, deserialize_json |-> TRUE], reply)
            /\ IF pc = "vcheck"
               THEN IF got.raised
                    THEN SwallowValidationError(got.exc)
                    ELSE /\ pc' = "vvalidate"
                         /\ UNCHANGED <<result, log, ckan_record>>
               ELSE /\ IF pc = "show"
                       THEN Finish(IF got.raised THEN Raised(got.exc)
                                   ELSE Returned(got.value))
                       ELSE AfterCheck(got)
                    /\ UNCHANGED <<log, ckan_record>>
            /\ input_dict' = IF op = "update_metadata_record" /\ ~got.raised /\ pc = "check"
                             THEN TranslateToCkanRecord(institution_key, metadata_record)
                             ELSE input_dict
    /\ UNCHANGED <<op, args, record_id, entity, primary, akey>>

\* a primary call that is tried again when it fails
PrimaryFailed_Retrying(e) ==
    /\ pc' = "mutate"
    /\ UNCHANGED <<result, ckan_record, primary, akey>>

\* a primary call whose error reaches the caller as a plain BadRequest
PrimaryFailed_Reclassified(e) ==
    /\ Finish(Raised(HTTPException(HTTP_400_BAD_REQUEST, e.detail)))
    /\ UNCHANGED <<ckan_record, primary, akey>>

\* the create call of create_or_update_metadata_record, or the update call of
\* update_metadata_record, has raised: nothing catches the error, and the
\* statements after the call do not run
PrimaryFailed(e) ==
    /\ Finish(Raised(e))
    /\ UNCHANGED <<ckan_record, primary, akey>>

\* create_or_update_metadata_record: the create call
MetadataRecordCreate ==
    /\ op = "create_or_update_metadata_record" /\ pc = "mutate"
    /\ \E reply \in Replies("metadata_record_create") :
        LET created == CallCkan(reply)
        IN  /\ Exchange("metadata_record_create",
                        [deserialize_json |-> TRUE, input |-> input_dict], reply)
            /\ IF created.raised
               THEN /\ PrimaryFailed(created.exc)
                    /\ UNCHANGED record_id
               ELSE /\ ckan_record' = created.value
                    /\ primary' = created.value
                    /\ record_id' = created.value.id
                    /\ akey' = 1
                    /\ pc' = "annotate_create"
                    /\ UNCHANGED result
    /\ UNCHANGED <<op, args, entity, input_dict, log>>

\* update_metadata_record: the update call
MetadataRecordUpdate ==
    /\ op = "update_metadata_record" /\ pc = "mutate"
    /\ \E reply \in Replies("metadata_record_update") :
        LET updated == CallCkan(reply)
        IN  /\ Exchange("metadata_record_update",
                        [id |-> record_id, deserialize_json |-> TRUE,
                         input |-> input_dict], reply)
            /\ IF updated.raised
               THEN PrimaryFailed(updated.exc)
               ELSE /\ ckan_record' = updated.value
                    /\ primary' = updated.value
                    /\ akey' = 1
                    /\ pc' = "annotate_create"
                    /\ UNCHANGED result
    /\ UNCHANGED <<op, args, record_id, entity, input_dict, log>>

\* annotate(): the annotation create call for the current key
AnnotationCreate ==
    /\ pc = "annotate_create"
    /\ \E reply \in Replies("metadata_record_workflow_annotation_create") :
        LET key == AnnotationKeys[akey]
            created == CallCkan(reply)
        IN  /\ Exchange("metadata_record_workflow_annotation_create",
                        AnnotationParams(record_id, key, metadata_record), reply)
            /\ IF ~created.raised
               THEN AnnotateEnd(akey, <<>>)
               ELSE IF AnnotateFallsBack(created.exc)
               THEN /\ pc' = "annotate_update"
                    /\ UNCHANGED <<akey, log, result>>
               ELSE AnnotateEnd(akey, created.exc.detail)
    /\ UNCHANGED <<op, args, record_id, entity, input_dict, ckan_record, primary>>

\* annotate(): the annotation update call after a create that failed with 400
AnnotationUpdate ==
    /\ pc = "annotate_update"
    /\ \E reply \in Replies("metadata_record_workflow_annotation_update") :
        LET key == AnnotationKeys[akey]
            updated == CallCkan(reply)
        IN  /\ Exchange("metadata_record_workflow_annotation_update",
                        AnnotationParams(record_id, key, metadata_record), reply)
            /\ AnnotateEnd(akey, IF updated.raised THEN updated.exc.detail ELSE <<>>)
    /\ UNCHANGED <<op, args, record_id, entity, input_dict, ckan_record, primary>>

\* a merge that reports the record validated only when no error was found
WithValidation_SuccessFlag(record, validation_result) ==
    [record EXCEPT !.validated = validation_result.success,
                   !.errors = validation_result.errors]

\* ckan_record.update({'validated': True, 'errors': ...}) after a validation
\* that raised nothing
WithValidation(record, validation_result) ==
    [record EXCEPT !.validated = TRUE,
                   !.errors = validation_result.errors]

\* validate_metadata_record after its existence check: the validate call and
\* the merge of the result fragments; as a public operation ("mutate") or
\* inside a record create / update ("vvalidate")
MetadataRecordValidate ==
    /\ \/ op = "validate_metadata_record" /\ pc = "mutate"
       \/ pc = "vvalidate"
    /\ \E reply \in Replies("metadata_record_validate") :
        LET called == CallCkan(reply)
            validated == IF called.raised THEN called
                         ELSE Return(MetadataValidationResult(called.value))
        IN  /\ Exchange("metadata_record_validate", [id |-> record_id], reply)
            /\ IF pc = "vvalidate"
               THEN IF validated.raised
                    THEN SwallowValidationError(validated.exc)
                    ELSE /\ ckan_record' = WithValidation(ckan_record, validated.value)
                         /\ Finish(Returned(TranslateFromCkanRecord(ckan_record')))
                         /\ UNCHANGED log
               ELSE /\ Finish(IF validated.raised THEN Raised(validated.exc)
                              ELSE Returned(validated.value))
                    /\ UNCHANGED <<log, ckan_record>>
    /\ UNCHANGED <<op, args, record_id, entity, input_dict, primary, akey>>

\* delete_metadata_record after its existence check
MetadataRecordDelete ==
    /\ op = "delete_metadata_record" /\ pc = "mutate"
    /\ \E reply \in Replies("metadata_record_delete") :
        LET deleted == CallCkan(reply)
        IN  /\ Exchange("metadata_record_delete", [id |-> record_id], reply)
            /\ Finish(IF deleted.raised THEN Raised(deleted.exc) ELSE Returned(TRUE))
    /\ UNCHANGED <<op, args, record_id, entity, input_dict, ckan_record, primary,
                   akey, log>>

\* change_state_of_metadata_record after its existence check
WorkflowStateTransition ==
    /\ op = "change_state_of_metadata_record" /\ pc = "mutate"
    /\ \E reply \in Replies("metadata_record_workflow_state_transition") :
        LET moved == CallCkan(reply)
        IN  /\ Exchange("metadata_record_workflow_state_transition",
                        [id |-> record_id, workflow_state_id |-> state_arg], reply)
            /\ Finish(IF moved.raised THEN Raised(moved.exc)
                      ELSE Returned(MetadataWorkflowResult(moved.value)))
    /\ UNCHANGED <<op, args, record_id, entity, input_dict, ckan_record, primary,
                   akey, log>>

\* create_collection: the create call
MetadataCollectionCreate ==
    /\ op = "create_collection" /\ pc = "mutate"
    /\ \E reply \in Replies("metadata_collection_create") :
        LET created == CallCkan(reply)
        IN  /\ Exchange("metadata_collection_create", input_dict, reply)
            /\ Finish(IF created.raised THEN Raised(created.exc)
                      ELSE Returned(TranslateFromCkanCollection(created.value)))
    /\ UNCHANGED <<op, args, record_id, entity, input_dict, ckan_record, primary,
                   akey, log>>

\* create_or_update_project: the create call and its except clause
InfrastructureCreate ==
    /\ op = "create_or_update_project" /\ pc = "mutate"
    /\ \E reply \in Replies("infrastructure_create") :
        LET created == CallCkan(reply)
        IN  /\ Exchange("infrastructure_create", input_dict, reply)
            /\ IF ~created.raised
               THEN /\ Finish(Returned(TranslateFromCkanProject(created.value)))
                    /\ UNCHANGED input_dict
               ELSE IF ProjectFallsBack(created.exc)
               THEN /\ input_dict' = [k \in DOMAIN input_dict \cup {"id"} |->
                                        IF k = "id" THEN input_dict.name
                                        ELSE input_dict[k]]
                    /\ pc' = "fallback"
                    /\ UNCHANGED result
               ELSE /\ Finish(Raised(created.exc))
                    /\ UNCHANGED input_dict
    /\ UNCHANGED <<op, args, record_id, entity, ckan_record, primary, akey, log>>

\* create_or_update_project: the update call after a duplicate-name failure
InfrastructureUpdate ==
    /\ op = "create_or_update_project" /\ pc = "fallback"
    /\ \E reply \in Replies("infrastructure_update") :
        LET updated == CallCkan(reply)
        IN  /\ Exchange("infrastructure_update", input_dict, reply)
            /\ Finish(IF updated.raised THEN Raised(updated.exc)
                      ELSE Returned(TranslateFromCkanProject(updated.value)))
    /\ UNCHANGED <<op, args, record_id, entity, input_dict, ckan_record, primary,
                   akey, log>>

\* the caller has its answer; nothing of the operation is kept
Complete ==
    /\ pc = "done"
    /\ op' = "none"
    /\ pc' = "idle"
    /\ institution_key' = ""
    /\ record_id' = ""
    /\ metadata_record' = None
    /\ state_arg' = ""
    /\ pagination' = None
    /\ entity' = None
    /\ entity_in' = None
    /\ access_token' = ""
    /\ input_dict' = None
    /\ ckan_record' = None
    /\ primary' = None
    /\ akey' = 0
    /\ calls' = <<>>
    /\ last' = None
    /\ log' = <<>>
    /\ result' = [kind |-> "none"]
    /\ UNCHANGED backend

Next ==
    \/ InvokeListMetadataRecords
    \/ InvokeListCollections
    \/ InvokeListProjects
    \/ MetadataRecordList
    \/ MetadataCollectionList
    \/ InfrastructureList
    \/ InvokeGetMetadataRecord
    \/ InvokeCreateOrUpdateMetadataRecord
    \/ InvokeUpdateMetadataRecord
    \/ InvokeDeleteMetadataRecord
    \/ InvokeValidateMetadataRecord
    \/ InvokeChangeStateOfMetadataRecord
    \/ InvokeCreateCollection
    \/ InvokeCreateOrUpdateProject
    \/ MetadataRecordShow
    \/ MetadataRecordCreate
    \/ MetadataRecordUpdate
    \/ AnnotationCreate
    \/ AnnotationUpdate
    \/ MetadataRecordValidate
    \/ MetadataRecordDelete
    \/ WorkflowStateTransition
    \/ MetadataCollectionCreate
    \/ InfrastructureCreate
    \/ InfrastructureUpdate
    \/ Complete

Spec == Init /\ [][Next]_vars

\* another caller's delete_metadata_record reaches the backend while this
\* caller's operation is between two of its calls
OtherCallerDelete ==
    /\ backend.modelled
    /\ \E rid \in RecordIds :
           /\ backend.records[rid].present
           /\ backend.records[rid].state = "active"
           /\ backend' = Deleted(rid)
    /\ UNCHANGED <<op, pc, args, record_id, entity, input_dict, ckan_record, primary,
                   akey, calls, last, log, result>>

StoreNext ==
    \/ Next
    \/ OtherCallerDelete

\* the adapter against a backend that keeps the records it is sent
StoreSpec == StoreInit /\ [][StoreNext]_vars

-----------------------------------------------------------------------------
(* Properties *)

ShowAction == "metadata_record_show"
NumCalls == Len(calls)
LastCall == calls[Len(calls)]

\* the operations that open with the scoped existence check
ScopedOperations ==
    {"update_metadata_record", "delete_metadata_record",
     "validate_metadata_record", "change_state_of_metadata_record"}

\* the show call of get_metadata_record, as sent for the operation's record
ShowCall ==
    [action |-> ShowAction, apikey |-> <<"Bearer ", access_token>>,
     data_dict |-> [id |-> record_id, deserialize_json |-> TRUE]]

\* the backend's latest answer is a record outside the caller's scope
OutOfScope ==
    /\ last.ok
    /\ (last.result.state /= "active" \/ last.result.owner_org /= institution_key)

IsNotFound(r) ==
    r.kind = "raised" /\ r.exc.status_code = 404

\* C1: get_metadata_record returns a record only when the backend's show
\* response is active and owned by the caller's institution; for a show
\* response that is inactive or owned by another institution it raises
\* NotFound (404): never Forbidden, never the record.
C1_ScopedGet ==
    (op = "get_metadata_record" /\ pc = "done") =>
        /\ result.kind = "returned" =>
              /\ last.ok
              /\ last.result.state = "active"
              /\ last.result.owner_org = institution_key
              /\ result.value.id = last.result.id
        /\ OutOfScope => IsNotFound(result)

C1_Witness ==
    /\ op = "get_metadata_record" /\ pc = "done"
    /\ last.ok
    /\ last.result.state = "deleted"
    /\ last.result.owner_org = institution_key
    /\ IsNotFound(result)

\* the errors a caller can observe from get_metadata_record for a record id
\* that the backend does not know, whatever the backend's message
AbsentRecordErrors ==
    { CallCkan([ok |-> FALSE, exc |-> "NotFound", msg |-> m]).exc
      : m \in {<<>>, GenericMsg, <<"Not found">>} }

\* C2: the failure get_metadata_record raises for an existing record that is
\* owned by another institution or is not active is identical to a failure it
\* raises for a record id that does not exist in the backend.
C2_ScopeFailureLooksAbsent ==
    (op = "get_metadata_record" /\ pc = "done" /\ OutOfScope) =>
        /\ result.kind = "raised"
        /\ result.exc \in AbsentRecordErrors

\* C3: in update, delete, validate and change_state, when the initial scoped
\* existence check fails the operation raises exactly the check's error and
\* has made no backend call but the show call.
C3_CheckFailed ==
    /\ op \in ScopedOperations
    /\ NumCalls = 1
    /\ GetMetadataRecord(institution_key, last).raised

C3_FailedCheckStops ==
    /\ [](op \in ScopedOperations /\ NumCalls >= 1 => calls[1] = ShowCall)
    /\ [](C3_CheckFailed =>
            /\ pc = "done"
            /\ result = Raised(GetMetadataRecord(institution_key, last).exc))
    /\ [][C3_CheckFailed => calls' = <<>> /\ op' = "none"]_vars

C3_Witness ==
    /\ op = "delete_metadata_record" /\ pc = "done"
    /\ calls = <<ShowCall>>
    /\ OutOfScope
    /\ IsNotFound(result)

ValidateAction == "metadata_record_validate"
AnnotationCreateAction == "metadata_record_workflow_annotation_create"
AnnotationUpdateAction == "metadata_record_workflow_annotation_update"
AnnotationActions == {AnnotationCreateAction, AnnotationUpdateAction}

\* the operations that write a record and annotate it
RecordWriteOperations ==
    {"create_or_update_metadata_record", "update_metadata_record"}

\* the primary create / update call of the operation has succeeded
PrimarySucceeded ==
    op \in RecordWriteOperations /\ primary /= None

\* the domain record that carries exactly the field values of a backend record
RecordOf(r) ==
    [institution_key |-> r.owner_org,
     collection_key |-> r.metadata_collection_id,
     schema_key |-> r.metadata_standard_id,
     metadata |-> r.metadata_json,
     id |-> r.id,
     pid |-> IF r.name = r.id THEN "None" ELSE r.name,
     doi |-> r.doi,
     validated |-> r.validated,
     errors |-> r.errors,
     state |-> r.workflow_state_id]

\* the backend's latest answer is an error that _call_ckan classifies as status
ClassifiedAs(status) ==
    /\ ~last.ok
    /\ CallCkan(last).exc.status_code = status

\* the opportunistic validation of an unvalidated create / update response
\* has failed: at its scoped check or at the validate action
C4_ValidationFailed ==
    /\ PrimarySucceeded /\ pc = "done"
    /\ ~primary.validated
    /\ \/ LastCall.action = ShowAction /\ (~last.ok \/ OutOfScope)
       \/ LastCall.action = ValidateAction /\ ~last.ok

\* C4: when the create / update call succeeded with validated=false and the
\* opportunistic validation fails with a classified error, the operation
\* still succeeds, and the returned record has validated=false and exactly
\* the field values of the backend's create / update response.
C4_ValidationFailureSwallowed ==
    C4_ValidationFailed =>
        /\ result.kind = "returned"
        /\ result.value.validated = FALSE
        /\ result.value = RecordOf(primary)

C4_Witness ==
    /\ C4_ValidationFailed
    /\ op = "update_metadata_record"
    /\ LastCall.action = ValidateAction
    /\ ClassifiedAs(503)
    /\ result.kind = "returned"
    /\ result.value.validated = FALSE

\* position of the annotation create call for a key, 0 when there is none
AnnotationCreateAt(key) ==
    IF \E i \in 1..NumCalls :
          calls[i].action = AnnotationCreateAction /\ calls[i].data_dict.key = key
    THEN CHOOSE i \in 1..NumCalls :
          calls[i].action = AnnotationCreateAction /\ calls[i].data_dict.key = key
    ELSE 0

FixedKeys == {"terms_and_conditions", "data_agreement", "capture_info"}

\* C5: whatever classified failures the annotation create and update calls
\* meet, a create / update whose primary call succeeded never raises, attempts
\* all three annotation keys, goes on to the validation step, and returns the
\* record.
C5_AnnotationFailuresNeverAbort ==
    PrimarySucceeded =>
        /\ result.kind /= "raised"
        /\ pc \in {"vcheck", "vvalidate", "done"} =>
              \A k \in FixedKeys : AnnotationCreateAt(k) > 0
        /\ (pc = "done" /\ ~primary.validated) =>
              \E i \in 1..NumCalls :
                 /\ calls[i].action = ShowAction
                 /\ \A k \in FixedKeys : AnnotationCreateAt(k) < i
        /\ pc = "done" => result.kind = "returned"

\* every annotation create failed with BadRequest and every update failed too
C5_Witness ==
    /\ PrimarySucceeded /\ pc = "done"
    /\ result.kind = "returned"
    /\ Len(SelectSeq(calls, LAMBDA c : c.action = AnnotationUpdateAction)) = 3
    /\ Len(SelectSeq(log, LAMBDA e : e.level = "error")) = 3
    /\ ~primary.validated
    /\ LastCall.action = ValidateAction

\* the latest call is an annotation create, answered by `last`
C6_CreateAnswered ==
    NumCalls >= 1 /\ LastCall.action = AnnotationCreateAction

\* C6: for each annotation key the annotation update is called if and only if
\* the annotation create for that key failed with a BadRequest (400) error;
\* it is then called once, directly after the failed create, with the same
\* record id, key and value; a create that failed otherwise (403, 404, 503)
\* is followed by no update.
C6_UpdateIffCreateBadRequest ==
    /\ [](\A j \in 1..NumCalls :
            calls[j].action = AnnotationUpdateAction =>
               /\ j > 1
               /\ calls[j - 1].action = AnnotationCreateAction
               /\ calls[j - 1].data_dict = calls[j].data_dict
               /\ calls[j - 1].apikey = calls[j].apikey)
    /\ [](\A i, j \in 1..NumCalls :
            (/\ i < j
             /\ calls[i].action \in AnnotationActions
             /\ calls[i].action = calls[j].action) =>
               calls[i].data_dict.key /= calls[j].data_dict.key)
    /\ [](C6_CreateAnswered => (pc = "annotate_update" <=> ClassifiedAs(400)))
    /\ [][(C6_CreateAnswered /\ Len(calls') = NumCalls + 1) =>
            (calls'[NumCalls + 1].action = AnnotationUpdateAction
                <=> ClassifiedAs(400))]_vars

C6_Witness ==
    /\ NumCalls >= 3
    /\ calls[NumCalls - 1].action = AnnotationCreateAction
    /\ calls[NumCalls].action = AnnotationUpdateAction
    /\ calls[NumCalls].data_dict.key = "data_agreement"
    /\ calls[NumCalls].data_dict = calls[NumCalls - 1].data_dict
    /\ AnnotationCreateAt("terms_and_conditions") = NumCalls - 2

ProjectCreateAction == "infrastructure_create"
ProjectUpdateAction == "infrastructure_update"

InProjectUpsert == op = "create_or_update_project"

\* the latest answer is a BadRequest whose detail reports the duplicate name
DuplicateNameFailure ==
    /\ ClassifiedAs(400)
    /\ \E i \in 1..Len(CallCkan(last).exc.detail) :
          CallCkan(last).exc.detail[i] = "Group name already exists in database"

\* the only call so far is the project create and it has been answered
C7_CreateAnswered ==
    InProjectUpsert /\ NumCalls = 1 /\ calls[1].action = ProjectCreateAction

\* C7: when the project create fails with a BadRequest whose message reports
\* that the name already exists, exactly one project update follows, with the
\* name, title and description of the create call and the normalized key as
\* its id; the result is the translation of the update's response, and a
\* failure of the update reaches the caller with no further call.
C7_DuplicateNameFallsBackOnce ==
    /\ [](InProjectUpsert => NumCalls <= 2)
    /\ []((C7_CreateAnswered /\ DuplicateNameFailure) => pc = "fallback")
    /\ [][(C7_CreateAnswered /\ DuplicateNameFailure) =>
            /\ Len(calls') = 2
            /\ calls'[1] = calls[1]
            /\ calls'[2].action = ProjectUpdateAction]_vars
    /\ []((InProjectUpsert /\ NumCalls = 2) =>
            /\ calls[2].action = ProjectUpdateAction
            /\ calls[2].apikey = calls[1].apikey
            /\ calls[2].data_dict.name = calls[1].data_dict.name
            /\ calls[2].data_dict.title = calls[1].data_dict.title
            /\ calls[2].data_dict.description = calls[1].data_dict.description
            /\ calls[2].data_dict.id = entity.key
            /\ EndsWith(entity.key, PROJECT_SUFFIX)
            /\ DOMAIN calls[2].data_dict = {"name", "title", "description", "id"}
            /\ pc = "done"
            /\ last.ok => result = Returned([key |-> last.result.name,
                                             name |-> last.result.title,
                                             description |-> last.result.description])
            /\ ~last.ok => result = Raised(CallCkan(last).exc))

C7_Witness ==
    /\ InProjectUpsert /\ pc = "done"
    /\ NumCalls = 2
    /\ calls[2].action = ProjectUpdateAction
    /\ calls[2].data_dict.id = <<"proj">> \o PROJECT_SUFFIX
    /\ ClassifiedAs(403)
    /\ result.kind = "raised"

\* C8: when the project create fails with anything but a BadRequest
\* duplicate-name error, no update call is made and the caller receives that
\* error unchanged; and the create call is the first backend call.
C8_OtherCreateFailurePropagates ==
    (InProjectUpsert /\ NumCalls >= 1) =>
        /\ calls[1].action = ProjectCreateAction
        /\ (NumCalls = 1 /\ ~last.ok /\ ~DuplicateNameFailure) =>
              /\ pc = "done"
              /\ result = Raised(CallCkan(last).exc)
        /\ NumCalls = 2 => calls[2].action = ProjectUpdateAction

\* a BadRequest with another message
C8_Witness ==
    /\ InProjectUpsert /\ pc = "done"
    /\ NumCalls = 1
    /\ ClassifiedAs(400)
    /\ ~DuplicateNameFailure
    /\ result.kind = "raised"
    /\ result.exc.status_code = 400

\* the status code the taxonomy gives to each kind of backend failure
StatusOf(exc) ==
    CASE exc = "RequestException" -> 503
      [] exc = "ValidationError" -> 400
      [] exc = "NotAuthorized" -> 403
      [] exc = "NotFound" -> 404
      [] OTHER -> 400

\* the operations that pass the result of their only or last call on
PassThroughOperations ==
    {"delete_metadata_record", "change_state_of_metadata_record",
     "create_collection", "get_metadata_record"}

\* C9: the action invoker gives every backend failure exactly one error kind:
\* a transport failure ServiceUnavailable (503), a backend validation failure
\* BadRequest (400), an authorization failure Forbidden (403), a not-found
\* NotFound (404) and any other API error BadRequest (400); a successful call
\* returns the backend's result unchanged.
C9_FailureClassification ==
    /\ (pc = "done" /\ ~last.ok /\ result.kind = "raised") =>
          result.exc.status_code = StatusOf(last.exc)
    /\ (pc = "done" /\ ~last.ok /\ op \in PassThroughOperations) =>
          result.kind = "raised"
    /\ (PrimarySucceeded /\ NumCalls >= 1
          /\ LastCall.action \in {"metadata_record_create", "metadata_record_update"}) =>
          /\ last.ok
          /\ ckan_record = last.result

C9_Witness ==
    /\ pc = "done"
    /\ op = "delete_metadata_record"
    /\ NumCalls = 2
    /\ ~last.ok /\ last.exc = "NotFound"
    /\ result.kind = "raised" /\ result.exc.status_code = 404

\* the place of a call in the order of a record create / update:
\* existence check, create / update, the three annotations, validation
FixedKeyOrder == <<"terms_and_conditions", "data_agreement", "capture_info">>

KeyPlace(key) == CHOOSE n \in 1..3 : FixedKeyOrder[n] = key

PrimaryAction ==
    IF op = "update_metadata_record" THEN "metadata_record_update"
    ELSE "metadata_record_create"

Place(i) ==
    LET c == calls[i]
    IN  CASE c.action = ShowAction ->
                IF i = 1 /\ op = "update_metadata_record" THEN 1 ELSE 6
          [] c.action = PrimaryAction -> 2
          [] c.action \in AnnotationActions -> 2 + KeyPlace(c.data_dict.key)
          [] c.action = ValidateAction -> 7
          [] OTHER -> 0

FirstPlace == IF op = "update_metadata_record" THEN 1 ELSE 2

\* C10: the backend calls of a record update are issued in the order
\* existence check, update call, the annotation calls in the key order
\* terms_and_conditions, data_agreement, capture_info, then the optional
\* validation; a record create follows the same order from the create call.
\* (Each step of the model is one blocking call with its answer.)
C10_CallOrder ==
    (op \in RecordWriteOperations /\ NumCalls >= 1) =>
        /\ Place(1) = FirstPlace
        /\ \A i \in 1..NumCalls : Place(i) > 0
        /\ \A i \in 1..(NumCalls - 1) :
              \/ /\ Place(i + 1) = Place(i) + 1
                 /\ calls[i + 1].action /= AnnotationUpdateAction
              \/ /\ Place(i + 1) = Place(i)
                 /\ calls[i].action = AnnotationCreateAction
                 /\ calls[i + 1].action = AnnotationUpdateAction

C10_Witness ==
    /\ op = "update_metadata_record" /\ pc = "done"
    /\ NumCalls = 8
    /\ LastCall.action = ValidateAction
    /\ calls[4].action = AnnotationUpdateAction
    /\ calls[4].data_dict.key = "terms_and_conditions"
    /\ calls[6].data_dict.key = "capture_info"

-----------------------------------------------------------------------------
(* The outcome of a validation *)

\* the keys that occur in the error mappings of the fragments
ErrorKeys(results) ==
    UNION {DOMAIN results[i].errors : i \in 1..Len(results)}

\* the place of the last fragment whose error mapping holds the key
LastFragmentWith(results, k) ==
    CHOOSE i \in 1..Len(results) :
        /\ k \in DOMAIN results[i].errors
        /\ \A j \in (i + 1)..Len(results) : k \notin DOMAIN results[j].errors

\* the error mapping in which, for every key, the last fragment decides
LastWins(results) ==
    [k \in ErrorKeys(results) |-> results[LastFragmentWith(results, k)].errors[k]]

\* a record create / update whose validation for convenience has raised nothing
C11_ValidationCompleted ==
    /\ PrimarySucceeded
    /\ pc = "done"
    /\ LastCall.action = ValidateAction
    /\ last.ok

\* C11: when the validation that a record create / update attempts completes
\* without error, the returned record is flagged validated, its errors are the
\* merged error mapping of the validation (empty or not), and every other field
\* is the one of the backend's create / update response.
C11_ValidationOutcomeReturned ==
    C11_ValidationCompleted =>
        /\ result.kind = "returned"
        /\ result.value.validated = TRUE
        /\ result.value.errors = LastWins(last.result.data.results)
        /\ \A f \in DOMAIN result.value \ {"validated", "errors"} :
               result.value[f] = RecordOf(primary)[f]
        /\ DOMAIN result.value = DOMAIN RecordOf(primary)

\* the validation found errors, and the record is returned as validated
C11_Witness ==
    /\ C11_ValidationCompleted
    /\ result.kind = "returned"
    /\ result.value.validated
    /\ DOMAIN result.value.errors /= {}
    /\ ~primary.validated

\* validate_metadata_record has its answer from the backend's validate action
C12_Validated ==
    /\ op = "validate_metadata_record"
    /\ pc = "done"
    /\ LastCall.action = ValidateAction
    /\ last.ok

\* C12: validate_metadata_record merges the error mappings of all result
\* fragments in the backend's order, the last fragment that holds a key
\* deciding its value, and reports success exactly when the merged mapping is
\* empty.
C12_MergeLastWriteWins ==
    C12_Validated =>
        LET results == last.result.data.results
        IN  /\ result.kind = "returned"
            /\ DOMAIN result.value.errors = ErrorKeys(results)
            /\ \A k \in ErrorKeys(results) :
                   result.value.errors[k] =
                       results[LastFragmentWith(results, k)].errors[k]
            /\ result.value.success <=> (ErrorKeys(results) = {})

\* two fragments report different errors under the same key
C12_Witness ==
    /\ C12_Validated
    /\ Len(last.result.data.results) = 2
    /\ \E k \in DOMAIN last.result.data.results[1].errors :
           /\ k \in DOMAIN last.result.data.results[2].errors
           /\ last.result.data.results[1].errors[k] /= last.result.data.results[2].errors[k]
    /\ ~result.value.success

-----------------------------------------------------------------------------
(* Keys of collections and projects *)

CollectionCreateAction == "metadata_collection_create"

\* the suffix of the kind of object the operation in progress creates
SuffixInUse ==
    IF op = "create_collection" THEN COLLECTION_SUFFIX ELSE PROJECT_SUFFIX

\* the normalization the operation in progress applies
NormalizeInUse(key) ==
    IF op = "create_collection" THEN NormalizeCollectionKey(key)
    ELSE NormalizeProjectKey(key)

\* the last tokens of s are those of suffix
HasSuffix(s, suffix) ==
    /\ Len(s) >= Len(suffix)
    /\ \A i \in 1..Len(suffix) : s[Len(s) - Len(suffix) + i] = suffix[i]

\* a collection create or a project upsert has called the backend
C13_Sent ==
    /\ op \in {"create_collection", "create_or_update_project"}
    /\ NumCalls >= 1

\* C13: the key is normalized before every create call, and normalization is
\* idempotent: the name sent in a collection create, a project create or a
\* project fallback update ends with the suffix of its kind, is the caller's
\* key when that key already ends with the suffix and the caller's key plus one
\* suffix otherwise; normalizing the name that was sent gives that name again.
C13_KeyNormalized ==
    C13_Sent =>
        \A i \in 1..NumCalls :
            LET name == calls[i].data_dict.name
            IN  /\ calls[i].action \in
                       {CollectionCreateAction, ProjectCreateAction, ProjectUpdateAction}
                /\ HasSuffix(name, SuffixInUse)
                /\ HasSuffix(entity_in.key, SuffixInUse) => name = entity_in.key
                /\ ~HasSuffix(entity_in.key, SuffixInUse) =>
                       name = entity_in.key \o SuffixInUse
                /\ NormalizeInUse(name) = name
                /\ NormalizeInUse(NormalizeInUse(entity_in.key)) =
                       NormalizeInUse(entity_in.key)

\* a project whose key came with its suffix has gone through the create and
\* the fallback update, and both calls carried the key as it came
C13_Witness ==
    /\ C13_Sent
    /\ NumCalls = 2
    /\ HasSuffix(entity_in.key, SuffixInUse)
    /\ calls[1].data_dict.name = entity_in.key
    /\ calls[2].data_dict.name = entity_in.key

-----------------------------------------------------------------------------
(* A record that was created can be read back (backend modelled: StoreSpec) *)

\* create_or_update_metadata_record has returned a record
C14_Created ==
    /\ op = "create_or_update_metadata_record"
    /\ pc = "done"
    /\ result.kind = "returned"

\* the institution that created a record asks for it under the id it was
\* given, and nothing has written the record since
C14_ReadBack ==
    /\ op = "get_metadata_record"
    /\ pc = "done"
    /\ backend.created = [id |-> record_id, institution_key |-> institution_key]

\* C14 as stated: the record returned by a successful
\* create_or_update_metadata_record carries the institution key that was
\* passed in, and a get_metadata_record for the returned id by the same
\* institution, issued with no operation on the record in between, succeeds.
C14_CreatedThenGetSucceeds ==
    /\ C14_Created =>
           /\ result.value.institution_key = institution_key
           /\ backend.created /= None =>
                  backend.created =
                      [id |-> result.value.id, institution_key |-> institution_key]
    /\ C14_ReadBack =>
           /\ result.kind = "returned"
           /\ result.value.id = record_id
           /\ result.value.institution_key = institution_key

\* C14 (amended): as above, the get succeeding whenever the backend answers its
\* show call; when that call fails, the get fails with the classified error of
\* the call, never with the not-found of the scope test.
C14_CreatedThenGetInScope ==
    /\ C14_Created =>
           /\ result.value.institution_key = institution_key
           /\ backend.created /= None =>
                  backend.created =
                      [id |-> result.value.id, institution_key |-> institution_key]
    /\ C14_ReadBack /\ last.ok =>
           /\ result.kind = "returned"
           /\ result.value.id = record_id
           /\ result.value.institution_key = institution_key
    /\ C14_ReadBack /\ ~last.ok =>
           /\ result = Raised(CallCkan(last).exc)
           /\ result.exc.detail /= <<"CKAN resource not found">>

\* the record is read back by the institution that created it
C14_Witness ==
    /\ C14_ReadBack
    /\ last.ok
    /\ result.kind = "returned"
    /\ result.value.institution_key = institution_key

-----------------------------------------------------------------------------
(* A delete between the check and the update (backend modelled: StoreSpec) *)

UpdateAction == "metadata_record_update"

\* update_metadata_record has passed its existence check, and another caller's
\* delete of the record has taken effect before the update call is made
C15_DeletedAfterCheck ==
    /\ op = "update_metadata_record"
    /\ pc = "mutate"
    /\ NumCalls = 1
    /\ backend.records[record_id].state = "deleted"

\* C15: when a concurrent delete of the record takes effect between the scoped
\* existence check of an update and its update call, the update call is made
\* once and fails, the operation ends there with the classified error of that
\* call, and it makes no further call (no retry, no annotation, no validation).
C15_UpdateAfterDeleteFails ==
    /\ [][C15_DeletedAfterCheck /\ calls' /= calls =>
             /\ calls' = Append(calls, Call(UpdateAction, access_token,
                                            [id |-> record_id, deserialize_json |-> TRUE,
                                             input |-> input_dict]))
             /\ ~last'.ok
             /\ pc' = "done"
             /\ result' = Raised(CallCkan(last').exc)]_vars
    /\ [][pc = "done" /\ calls' /= calls => calls' = <<>> /\ op' = "none"]_vars

\* the update call was made on the deleted record, and the operation has failed
C15_Witness ==
    /\ op = "update_metadata_record"
    /\ pc = "done"
    /\ NumCalls = 2
    /\ LastCall.action = UpdateAction
    /\ backend.records[record_id].state = "deleted"
    /\ result.kind = "raised"
    /\ IsNotFound(result)

-----------------------------------------------------------------------------
(* Swallowed errors are logged *)

\* the latest call is an annotation call whose error annotate() keeps to
\* itself: a create that failed with another status than 400, or an update
\* that failed
C16_AnnotationErrorSwallowed ==
    /\ PrimarySucceeded
    /\ ~last.ok
    /\ \/ /\ LastCall.action = AnnotationCreateAction
          /\ CallCkan(last).exc.status_code /= HTTP_400_BAD_REQUEST
       \/ LastCall.action = AnnotationUpdateAction

\* the latest call belongs to the validation for convenience, which has failed
C16_ValidationErrorSwallowed ==
    /\ PrimarySucceeded
    /\ \/ LastCall.action = ValidateAction /\ ~last.ok
       \/ /\ LastCall.action = ShowAction
          /\ NumCalls > 2
          /\ ~last.ok \/ OutOfScope

\* the record the operation in progress writes
C16_RecordId ==
    IF op = "create_or_update_metadata_record" THEN primary.id ELSE record_id

\* C16: every swallowed error is logged.  An annotation key whose create failed
\* with a non-BadRequest error, or whose fallback update failed, gets a log
\* entry that names the key and the record id; a swallowed failure of the
\* validation for convenience gets a log entry that names the record id; and a
\* call that leaves no such error writes nothing to the log.
C16_SwallowedErrorsLogged ==
    [][op' \in RecordWriteOperations /\ calls' /= calls /\ primary' /= None =>
          IF C16_AnnotationErrorSwallowed'
          THEN log' = Append(log, [level |-> "error",
                                   key |-> LastCall'.data_dict.key,
                                   record_id |-> C16_RecordId'])
          ELSE IF C16_ValidationErrorSwallowed'
          THEN log' = Append(log, [level |-> "warning", record_id |-> C16_RecordId'])
          ELSE log' = log]_vars

\* all three annotations and the validation have failed, and each is in the log
C16_Witness ==
    /\ PrimarySucceeded
    /\ pc = "done"
    /\ Len(log) = 4
    /\ \A i \in 1..3 : log[i].level = "error" /\ log[i].key = AnnotationKeys[i]
    /\ log[4] = [level |-> "warning", record_id |-> C16_RecordId]

-----------------------------------------------------------------------------
(* When the validation for convenience runs *)

\* the place of the primary create / update call among the operation's calls
PrimaryPlace == IF op = "update_metadata_record" THEN 2 ELSE 1

\* the operation has called the action after its primary call
CalledAfterPrimary(action) ==
    \E i \in (PrimaryPlace + 1)..NumCalls : calls[i].action = action

\* a record create / update is over, its primary call having succeeded
C17_Over ==
    /\ PrimarySucceeded
    /\ pc = "done"

\* C17 as stated: the backend's validate action is invoked if and only if the
\* create / update response has validated = false; when the response is
\* already validated, no show or validate call follows the annotation calls and
\* the returned validated flag and errors are those of the response.
C17_ValidateIffNotValidated ==
    C17_Over =>
        /\ CalledAfterPrimary(ValidateAction) <=> ~primary.validated
        /\ primary.validated =>
               /\ ~CalledAfterPrimary(ShowAction)
               /\ result.value.validated = primary.validated
               /\ result.value.errors = primary.errors

\* C17 (amended): the validation is attempted if and only if the create /
\* update response has validated = false: its scoped existence check (a show
\* call) is then issued after the annotation calls, and the backend's validate
\* action is invoked if and only if, in addition, that check passes.  When the
\* response is already validated, no show or validate call follows the
\* annotation calls and the returned validated flag and errors are those of the
\* response.
C17_ValidationAttemptedIffNotValidated ==
    C17_Over =>
        /\ CalledAfterPrimary(ShowAction) <=> ~primary.validated
        /\ CalledAfterPrimary(ValidateAction) =>
               /\ ~primary.validated
               /\ LastCall.action = ValidateAction
               /\ calls[NumCalls - 1].action = ShowAction
        /\ ~primary.validated /\ ~CalledAfterPrimary(ValidateAction) =>
               /\ LastCall.action = ShowAction
               /\ ~last.ok \/ OutOfScope
        /\ primary.validated =>
               /\ LastCall.action \in AnnotationActions
               /\ ~CalledAfterPrimary(ValidateAction)
               /\ result = Returned(RecordOf(primary))

\* the response was validated already: the operation has ended with its last
\* annotation call and has returned the flag and the errors of the response
C17_Witness ==
    /\ C17_Over
    /\ primary.validated
    /\ DOMAIN primary.errors /= {}
    /\ LastCall.action \in AnnotationActions
    /\ result.value.validated
    /\ result.value.errors = primary.errors

-----------------------------------------------------------------------------
(* A failed primary call *)

\* the primary create / update call of a record operation has been made and
\* has not succeeded
C18_PrimaryFailed ==
    /\ op \in RecordWriteOperations
    /\ NumCalls >= PrimaryPlace
    /\ primary = None

\* C18: when the primary create call of create_or_update_metadata_record, or
\* the primary update call of update_metadata_record, fails with any classified
\* error, the operation raises that error unchanged and makes no annotation
\* create, annotation update or validate call.
C18_PrimaryFailurePropagates ==
    C18_PrimaryFailed =>
        /\ NumCalls = PrimaryPlace
        /\ LastCall.action = PrimaryAction
        /\ ~last.ok
        /\ pc = "done"
        /\ result = Raised(CallCkan(last).exc)
        /\ result.exc.status_code = StatusOf(last.exc)
        /\ \A i \in 1..NumCalls :
               calls[i].action \notin AnnotationActions \cup {ValidateAction}
        /\ log = <<>>

\* an update was refused as not authorized, and the operation has raised 403
C18_Witness ==
    /\ C18_PrimaryFailed
    /\ op = "update_metadata_record"
    /\ last.exc = "NotAuthorized"
    /\ result.kind = "raised"
    /\ result.exc.status_code = HTTP_403_FORBIDDEN

-----------------------------------------------------------------------------
(* Every operation ends after a bounded number of calls *)

\* the most backend calls an operation may make
MostCalls ==
    CASE op \in {"get_metadata_record", "list_metadata_records", "list_collections",
                 "list_projects", "create_collection"} -> 1
      [] op \in {"delete_metadata_record", "validate_metadata_record",
                 "change_state_of_metadata_record", "create_or_update_project"} -> 2
      [] op = "create_or_update_metadata_record" -> 9
      [] op = "update_metadata_record" -> 10
      [] OTHER -> 0

\* how many of the operation's calls invoke one of the actions
Count(actions) ==
    Cardinality({i \in 1..NumCalls : calls[i].action \in actions})

\* how many of the operation's calls invoke the action for the annotation key
CountForKey(action, key) ==
    Cardinality({i \in 1..NumCalls :
                    calls[i].action = action /\ calls[i].data_dict.key = key})

\* the numbers of backend calls stay within their limits
C19_CallsBounded ==
    /\ NumCalls <= MostCalls
    /\ \A key \in FixedKeys :
           /\ CountForKey(AnnotationCreateAction, key) <= 1
           /\ CountForKey(AnnotationUpdateAction, key) <= 1
           /\ CountForKey(AnnotationUpdateAction, key)
                  <= CountForKey(AnnotationCreateAction, key)
    /\ op = "create_or_update_metadata_record" =>
           /\ Count({"metadata_record_create"}) <= 1
           /\ Count(AnnotationActions) <= 6
           /\ Count({ShowAction}) <= 1
           /\ Count({ValidateAction}) <= 1
    /\ op = "create_or_update_project" =>
           /\ Count({ProjectCreateAction}) <= 1
           /\ Count({ProjectUpdateAction}) <= 1

\* C19: every top-level operation terminates after a bounded number of backend
\* calls whatever the backend answers.  Every step of an operation issues
\* exactly one call and then the operation is over or goes on, a call that
\* failed is never issued again, each annotation key causes at most two calls
\* (one create, at most one update), a project upsert at most two calls, and a
\* record create at most nine (one create, at most six annotation calls, at most
\* one show and one validate).  The number of calls grows with every step and
\* is bounded, so the operation ends.
C19_BoundedCalls ==
    /\ []C19_CallsBounded
    /\ [][pc \notin {"idle", "done"} =>
              /\ calls' = Append(calls, calls'[Len(calls')])
              /\ pc' = "done" \/ NumCalls' < MostCalls']_vars
    /\ [][pc \notin {"idle", "done"} /\ calls /= <<>> /\ ~last.ok =>
              calls'[Len(calls')] /= LastCall]_vars
    /\ [][pc = "done" => calls' = <<>>]_vars

\* a record create has made its nine calls and is over
C19_Witness ==
    /\ op = "create_or_update_metadata_record"
    /\ pc = "done"
    /\ NumCalls = 9
    /\ LastCall.action = ValidateAction

-----------------------------------------------------------------------------
(* What create_collection and create_or_update_project do to their argument *)

\* the fields of the caller's object other than its key
OtherFields == DOMAIN entity \ {"key"}

\* create_collection or create_or_update_project is in progress or over
C20_Entered ==
    op \in {"create_collection", "create_or_update_project"}

\* C20: create_collection and create_or_update_project modify only the key of
\* the caller's input object: from the first backend call on, and after the
\* operation whether it succeeded or failed, the object's key is the normalized
\* (suffixed) key and its other fields (name, description, doi_scope,
\* project_keys) are those the caller passed.
C20_OnlyKeyModified ==
    C20_Entered =>
        /\ DOMAIN entity = DOMAIN entity_in
        /\ \A f \in OtherFields : entity[f] = entity_in[f]
        /\ HasSuffix(entity.key, SuffixInUse)
        /\ entity.key = IF HasSuffix(entity_in.key, SuffixInUse) THEN entity_in.key
                        ELSE entity_in.key \o SuffixInUse
        /\ NumCalls >= 1 => entity.key = calls[1].data_dict.name

\* a collection create has failed, and the caller's object is left with the
\* suffixed key
C20_Witness ==
    /\ op = "create_collection"
    /\ pc = "done"
    /\ result.kind = "raised"
    /\ entity.key /= entity_in.key
    /\ entity.key = entity_in.key \o COLLECTION_SUFFIX
    /\ \A f \in OtherFields : entity[f] = entity_in[f]
====
